---------------------------- MODULE Spec2Model ----------------------------
(***************************************************************************)
(* A model of server.py: the schema-driven form server.                    *)
(*                                                                         *)
(*   load_schema                         schema.json -> self.schema        *)
(*   DynamicSchemaServer                 do_GET, do_POST                   *)
(*   resolve_ref / resolve_schema_refs   $ref resolution over the schema   *)
(*   parse_nested_form_data              dotted keys -> nested mapping     *)
(*   validate_against_schema /                                             *)
(*   validate_field_value                constraint validation             *)
(*                                                                         *)
(* Python strings are sequences of one-character strings, so that          *)
(* startswith, split, int() and float() are computed character by          *)
(* character.  A JSON value is a record [t, n, s, c]: t its Python type,   *)
(* n the number of an int or bool, s the characters of a str, c the        *)
(* entries <<[k, v], ...>> of a dict (in insertion order) or of a list     *)
(* (k empty).  A Python exception is a value whose t names the exception.  *)
(***************************************************************************)
EXTENDS Integers, Sequences, FiniteSets, TLC

VARIABLES
    pc,           \* where the handling of the request in hand has got to
    schema,       \* the schema document (self.schema)
    resolved,     \* what resolve_schema_refs(schema, schema) gave
    again,        \* what resolving that result once more gave
    flat_data,    \* the submission: dotted key -> string, in arrival order
    nested_data,  \* what parse_nested_form_data gave
    validation,   \* what validate_against_schema gave
    file,         \* schema.json as the request in hand found it
    console,      \* the lines printed while the request was handled
    request,      \* the request in hand
    response      \* what was sent back for it

vars == <<pc, schema, resolved, again, flat_data, nested_data, validation,
          file, console, request, response>>

(***************************************************************************)
(* Bounds.                                                                 *)
(***************************************************************************)
\* The interpreter's recursion limit, scaled down: the deepest chain of
\* nested resolve_schema_refs calls before RecursionError is raised.  Every
\* acyclic document of the model resolves well within it.
RecursionLimit == 14

\* The longest dotted key of a submission, in segments, and the most keys of
\* a submission.
MaxSegments == 3
MaxKeys == 2

(***************************************************************************)
(* JSON values.                                                            *)
(***************************************************************************)
V(t, n, s, c) == [t |-> t, n |-> n, s |-> s, c |-> c]
Entry(k, v) == [k |-> k, v |-> v]

Null == V("null", 0, <<>>, <<>>)
Bool(b) == V("bool", IF b THEN 1 ELSE 0, <<>>, <<>>)
Num(i) == V("int", i, <<>>, <<>>)
Str(s) == V("str", 0, s, <<>>)
Obj(entries) == V("dict", 0, <<>>, entries)
List(items) == V("list", 0, <<>>, [i \in DOMAIN items |-> Entry(<<>>, items[i])])

\* A raised exception, as the value of the call that raised it.
Raised(name) == V(name, 0, <<>>, <<>>)
RecursionError == Raised("RecursionError")
TypeError == Raised("TypeError")
AttributeError == Raised("AttributeError")
IsRaised(v) == v.t \notin {"null", "bool", "int", "str", "list", "dict"}

\* key in d, for a dict d
HasKey(d, key) == d.t = "dict" /\ \E i \in DOMAIN d.c : d.c[i].k = key
\* d[key]
Get(d, key) == d.c[CHOOSE i \in DOMAIN d.c : d.c[i].k = key].v

\* Python truthiness: bool(v)
Truthy(v) ==
    CASE v.t = "null" -> FALSE
      [] v.t \in {"bool", "int"} -> v.n # 0
      [] v.t = "str" -> v.s # <<>>
      [] OTHER -> v.c # <<>>

(***************************************************************************)
(* Strings.                                                                *)
(***************************************************************************)
StartsWith(s, p) == Len(s) >= Len(p) /\ SubSeq(s, 1, Len(p)) = p

\* s.split(sep), for a one-character sep
RECURSIVE SplitFrom(_, _, _, _)
SplitFrom(s, sep, i, cur) ==
    IF i > Len(s) THEN <<cur>>
    ELSE IF s[i] = sep THEN <<cur>> \o SplitFrom(s, sep, i + 1, <<>>)
    ELSE SplitFrom(s, sep, i + 1, Append(cur, s[i]))

Split(s, sep) == SplitFrom(s, sep, 1, <<>>)

K_ref == <<"$", "r", "e", "f">>
K_defs == <<"$", "d", "e", "f", "s">>
K_properties == <<"p", "r", "o", "p", "e", "r", "t", "i", "e", "s">>
K_items == <<"i", "t", "e", "m", "s">>
K_type == <<"t", "y", "p", "e">>
T_string == <<"s", "t", "r", "i", "n", "g">>
K_required == <<"r", "e", "q", "u", "i", "r", "e", "d">>
K_minLength == <<"m", "i", "n", "L", "e", "n", "g", "t", "h">>
K_maxLength == <<"m", "a", "x", "L", "e", "n", "g", "t", "h">>
K_pattern == <<"p", "a", "t", "t", "e", "r", "n">>
K_enum == <<"e", "n", "u", "m">>
K_format == <<"f", "o", "r", "m", "a", "t">>
K_minimum == <<"m", "i", "n", "i", "m", "u", "m">>
K_maximum == <<"m", "a", "x", "i", "m", "u", "m">>
T_integer == <<"i", "n", "t", "e", "g", "e", "r">>
T_number == <<"n", "u", "m", "b", "e", "r">>
T_email == <<"e", "m", "a", "i", "l">>
T_object == <<"o", "b", "j", "e", "c", "t">>
T_boolean == <<"b", "o", "o", "l", "e", "a", "n">>

(***************************************************************************)
(* resolve_ref                                                             *)
(***************************************************************************)
\* The loop over path_parts: the value reached, or None with a warning.
RECURSIVE WalkParts(_, _, _)
WalkParts(current, path_parts, i) ==
    IF i > Len(path_parts) THEN [v |-> current, warned |-> FALSE]
    ELSE IF HasKey(current, path_parts[i])
         THEN WalkParts(Get(current, path_parts[i]), path_parts, i + 1)
         ELSE [v |-> Null, warned |-> TRUE]

\* resolve_ref(ref_path, schema): v is the value returned (None is JSON null),
\* w the warnings printed.
resolve_ref(ref_path, full_schema) ==
    IF StartsWith(ref_path, <<"#", "/">>)
    THEN LET path_parts == Split(SubSeq(ref_path, 3, Len(ref_path)), "/")
             found == WalkParts(full_schema, path_parts, 1)
         IN  [v |-> found.v, w |-> IF found.warned THEN <<ref_path>> ELSE <<>>]
    ELSE [v |-> Null, w |-> <<ref_path>>]

(***************************************************************************)
(* resolve_schema_refs                                                     *)
(***************************************************************************)
\* "if resolved:" -- the referent is recursed into when it is truthy
Usable(referent) == Truthy(referent)

\* Mutant: the failed lookup's None is returned in place of the node.
Unresolved_ReturnsNone(schema_part) == Null

\* "else: return schema_part" -- the unresolved $ref node stays as it is
Unresolved(schema_part) == schema_part

\* Mutant: the function falls off its end for a scalar and returns None.
Scalar_ReturnsNone(schema_part) == Null

\* "else: return schema_part" -- a value that is neither dict nor list
Scalar(schema_part) == schema_part

RECURSIVE resolve_schema_refs_rec(_, _, _)
RECURSIVE resolve_entries(_, _, _, _)

\* The call resolve_schema_refs(schema_part, full_schema) made at nesting
\* `depth`: r is the value returned or the exception raised, w the warnings
\* printed up to then.
resolve_schema_refs_rec(schema_part, full_schema, depth) ==
    IF depth > RecursionLimit THEN [r |-> RecursionError, w |-> <<>>]
    ELSE IF schema_part.t = "dict" THEN
        IF HasKey(schema_part, K_ref)
        THEN LET res == resolve_ref(Get(schema_part, K_ref).s, full_schema)
             IN  IF Usable(res.v)
                 THEN LET sub == resolve_schema_refs_rec(res.v, full_schema, depth + 1)
                      IN  [r |-> sub.r, w |-> res.w \o sub.w]
                 ELSE [r |-> Unresolved(schema_part), w |-> res.w]
        ELSE LET done == resolve_entries(schema_part.c, full_schema, depth, 1)
             IN  [r |-> IF done.raised THEN RecursionError ELSE Obj(done.c),
                  w |-> done.w]
    ELSE IF schema_part.t = "list" THEN
        LET done == resolve_entries(schema_part.c, full_schema, depth, 1)
        IN  [r |-> IF done.raised THEN RecursionError
                   ELSE V("list", 0, <<>>, done.c),
             w |-> done.w]
    ELSE [r |-> Scalar(schema_part), w |-> <<>>]

\* The loop over a dict's items (or a list's) from entry i on, in order; it
\* ends at the first entry whose resolution raises.
resolve_entries(entries, full_schema, depth, i) ==
    IF i > Len(entries) THEN [raised |-> FALSE, c |-> <<>>, w |-> <<>>]
    ELSE LET head == resolve_schema_refs_rec(entries[i].v, full_schema, depth + 1)
         IN  IF IsRaised(head.r)
             THEN [raised |-> TRUE, c |-> <<>>, w |-> head.w]
             ELSE LET rest == resolve_entries(entries, full_schema, depth, i + 1)
                  IN  [raised |-> rest.raised,
                       c |-> <<Entry(entries[i].k, head.r)>> \o rest.c,
                       w |-> head.w \o rest.w]

resolve_schema_refs(schema_part, full_schema) ==
    resolve_schema_refs_rec(schema_part, full_schema, 1)

(***************************************************************************)
(* parse_nested_form_data                                                  *)
(***************************************************************************)
\* d[key] = value on a dict: an existing key keeps its place
Put(d, key, value) ==
    IF HasKey(d, key)
    THEN Obj([i \in DOMAIN d.c |->
                 IF d.c[i].k = key THEN Entry(key, value) ELSE d.c[i]])
    ELSE Obj(Append(d.c, Entry(key, value)))

\* Mutant: an intermediate segment is always given a fresh dict.
Child_AlwaysFresh(current, part) == Obj(<<>>)

\* "if part not in current: current[part] = {}" and "current = current[part]"
Child(current, part) ==
    IF HasKey(current, part) THEN Get(current, part) ELSE Obj(<<>>)

\* The walk along parts[:-1] and the final "current[final_key] = value",
\* from `current` on: the dict `current` has become, or the exception.  A
\* str met on the way raises TypeError: `part not in current` is then a
\* substring test, and both "current[part] = {}" and "current[part]" with a
\* str index are type errors, as is the final item assignment.
RECURSIVE assign_path(_, _, _)
assign_path(current, parts, value) ==
    IF current.t # "dict" THEN TypeError
    ELSE IF Len(parts) = 1 THEN Put(current, parts[1], value)
    ELSE LET sub == assign_path(Child(current, parts[1]), Tail(parts), value)
         IN  IF IsRaised(sub) THEN sub ELSE Put(current, parts[1], sub)

\* '.' in key
Dotted(key) == \E i \in DOMAIN key : key[i] = "."

\* The loop over flat_data.items() from entry i on.
RECURSIVE parse_from(_, _, _)
parse_from(flat, i, nested) ==
    IF i > Len(flat.c) THEN nested
    ELSE LET key == flat.c[i].k
             value == flat.c[i].v
             next == IF Dotted(key)
                     THEN assign_path(nested, Split(key, "."), value)
                     ELSE Put(nested, key, value)
         IN  IF IsRaised(next) THEN next ELSE parse_from(flat, i + 1, next)

parse_nested_form_data(flat) == parse_from(flat, 1, Obj(<<>>))

(***************************************************************************)
(* int(value) and float(value) on a str                                    *)
(***************************************************************************)
Digits == {"0", "1", "2", "3", "4", "5", "6", "7", "8", "9"}
LowerLetters == {"a", "b", "c", "d", "e", "f", "g", "h", "i", "j", "k", "l", "m",
                 "n", "o", "p", "q", "r", "s", "t", "u", "v", "w", "x", "y", "z"}
UpperLetters == {"A", "B", "C", "D", "E", "F", "G", "H", "I", "J", "K", "L", "M",
                 "N", "O", "P", "Q", "R", "S", "T", "U", "V", "W", "X", "Y", "Z"}
Letters == LowerLetters \cup UpperLetters
Whitespace == {" ", "\t", "\n", "\r"}

DigitValue(c) ==
    CASE c = "0" -> 0 [] c = "1" -> 1 [] c = "2" -> 2 [] c = "3" -> 3
      [] c = "4" -> 4 [] c = "5" -> 5 [] c = "6" -> 6 [] c = "7" -> 7
      [] c = "8" -> 8 [] c = "9" -> 9

\* s.strip()
RECURSIVE Strip(_)
Strip(s) ==
    IF s = <<>> THEN s
    ELSE IF Head(s) \in Whitespace THEN Strip(Tail(s))
    ELSE IF s[Len(s)] \in Whitespace THEN Strip(SubSeq(s, 1, Len(s) - 1))
    ELSE s

Signed(s) == s # <<>> /\ Head(s) \in {"+", "-"}
Unsigned(s) == IF Signed(s) THEN Tail(s) ELSE s
SignOf(s) == IF s # <<>> /\ Head(s) = "-" THEN -1 ELSE 1

\* A digit string as int() and float() take it: digits, with single
\* underscores between digits.
DigitString(s) ==
    /\ s # <<>>
    /\ \A i \in DOMAIN s : s[i] \in Digits \cup {"_"}
    /\ s[1] # "_" /\ s[Len(s)] # "_"
    /\ \A i \in 1..(Len(s) - 1) : ~(s[i] = "_" /\ s[i + 1] = "_")

RECURSIVE DigitsValue(_, _)
DigitsValue(s, acc) ==
    IF s = <<>> THEN acc
    ELSE IF Head(s) = "_" THEN DigitsValue(Tail(s), acc)
    ELSE DigitsValue(Tail(s), 10 * acc + DigitValue(Head(s)))

CountDigits(s) == Cardinality({i \in DOMAIN s : s[i] \in Digits})

RECURSIVE Pow10(_)
Pow10(n) == IF n = 0 THEN 1 ELSE 10 * Pow10(n - 1)

\* A number num/den, or nan, or an infinity of sign num.
Number(kind, num, den) == [ok |-> TRUE, kind |-> kind, num |-> num, den |-> den]
ValueError == [ok |-> FALSE, kind |-> "ValueError", num |-> 0, den |-> 1]

\* int(s): ValueError unless s is an optionally signed digit string
int(s) ==
    LET body == Unsigned(Strip(s))
    IN  IF DigitString(body)
        THEN Number("finite", SignOf(Strip(s)) * DigitsValue(body, 0), 1)
        ELSE ValueError

\* float(s): an optionally signed decimal (digits, at most one point, a
\* digit on at least one side of it), nan, inf or infinity.  No submitted
\* string of the model holds an exponent.
float(s) ==
    LET text == Strip(s)
        body == Unsigned(text)
        points == {i \in DOMAIN body : body[i] = "."}
        point == CHOOSE i \in points : TRUE
        whole == SubSeq(body, 1, point - 1)
        frac == SubSeq(body, point + 1, Len(body))
    IN  IF body = <<"n", "a", "n">> THEN Number("nan", 0, 1)
        ELSE IF body \in {<<"i", "n", "f">>, <<"i", "n", "f", "i", "n", "i", "t", "y">>}
             THEN Number("inf", SignOf(text), 1)
        ELSE IF points = {}
             THEN (IF DigitString(body)
                   THEN Number("finite", SignOf(text) * DigitsValue(body, 0), 1)
                   ELSE ValueError)
        ELSE IF /\ Cardinality(points) = 1
                /\ whole = <<>> \/ DigitString(whole)
                /\ frac = <<>> \/ DigitString(frac)
                /\ whole \o frac # <<>>
             THEN Number("finite",
                         SignOf(text) * DigitsValue(whole \o frac, 0),
                         Pow10(CountDigits(frac)))
        ELSE ValueError

\* num_value < bound, for a JSON integer bound
Below(x, bound) ==
    CASE x.kind = "finite" -> x.num < bound * x.den
      [] x.kind = "inf" -> x.num < 0
      [] OTHER -> FALSE

\* num_value > bound
Above(x, bound) ==
    CASE x.kind = "finite" -> x.num > bound * x.den
      [] x.kind = "inf" -> x.num > 0
      [] OTHER -> FALSE

(***************************************************************************)
(* re.match                                                                *)
(***************************************************************************)
\* re.match(pattern, value) for the patterns of the model: literal
\* characters, optionally opened by ^ and closed by $.  The match starts at
\* position 0 and, without $, may end before the value does; $ matches at
\* the end and before a final newline.
AtEnd(rest) == rest = <<>> \/ rest = <<"\n">>

Match(pattern, value) ==
    LET open == IF pattern # <<>> /\ Head(pattern) = "^" THEN Tail(pattern) ELSE pattern
        closed == open # <<>> /\ open[Len(open)] = "$"
        literal == IF closed THEN SubSeq(open, 1, Len(open) - 1) ELSE open
    IN  /\ StartsWith(value, literal)
        /\ closed => AtEnd(SubSeq(value, Len(literal) + 1, Len(value)))

\* re.match(r'^[a-zA-Z0-9._%+-]+@[a-zA-Z0-9.-]+\.[a-zA-Z]{2,}$', value)
LocalChars == Letters \cup Digits \cup {".", "_", "%", "+", "-"}
DomainChars == Letters \cup Digits \cup {".", "-"}

EmailBody(s) ==
    \E at, dot \in DOMAIN s :
        /\ 1 < at /\ at + 1 < dot /\ dot + 2 <= Len(s)
        /\ s[at] = "@" /\ s[dot] = "."
        /\ \A i \in 1..(at - 1) : s[i] \in LocalChars
        /\ \A i \in (at + 1)..(dot - 1) : s[i] \in DomainChars
        /\ \A i \in (dot + 1)..Len(s) : s[i] \in Letters

EmailMatch(s) ==
    \/ EmailBody(s)
    \/ s # <<>> /\ s[Len(s)] = "\n" /\ EmailBody(SubSeq(s, 1, Len(s) - 1))

(***************************************************************************)
(* validate_field_value                                                    *)
(***************************************************************************)
\* A message is the sequence of the pieces of its f-string: the literal
\* text in one piece each, a name or a string character by character.
RequiredMessage(field) == <<"Field '">> \o field \o <<"' is required">>
FieldMessage(field_name, text) == <<"'">> \o field_name \o text

\* ', '.join(items) for a list of str
RECURSIVE JoinItems(_, _)
JoinItems(entries, i) ==
    IF i > Len(entries) THEN <<>>
    ELSE (IF i > 1 THEN <<", ">> ELSE <<>>) \o entries[i].v.s
            \o JoinItems(entries, i + 1)

\* What a step of the function gives: the messages it appends, or the
\* exception it raises.
Appends(messages) == [exc |-> "none", errors |-> messages]
Raises(name) == [exc |-> name, errors |-> <<>>]

\* Steps in sequence: an exception ends them, the messages so far kept in
\* the list they were appended to.
Then(first, second) ==
    IF first.exc # "none" THEN first
    ELSE [exc |-> second.exc, errors |-> first.errors \o second.errors]

\* len(value)
PyLen(value) == IF value.t = "str" THEN Len(value.s) ELSE Len(value.c)

CheckMinLength(field_name, value, field_schema) ==
    IF ~HasKey(field_schema, K_minLength) THEN Appends(<<>>)
    ELSE LET bound == Get(field_schema, K_minLength)
         IN  IF bound.t # "int" THEN Raises("TypeError")
             ELSE IF PyLen(value) < bound.n
             THEN Appends(<<FieldMessage(field_name,
                     <<"' must be at least ", ToString(bound.n), " characters">>)>>)
             ELSE Appends(<<>>)

CheckMaxLength(field_name, value, field_schema) ==
    IF ~HasKey(field_schema, K_maxLength) THEN Appends(<<>>)
    ELSE LET bound == Get(field_schema, K_maxLength)
         IN  IF bound.t # "int" THEN Raises("TypeError")
             ELSE IF PyLen(value) > bound.n
             THEN Appends(<<FieldMessage(field_name,
                     <<"' must be at most ", ToString(bound.n), " characters">>)>>)
             ELSE Appends(<<>>)

CheckPattern(field_name, value, field_schema) ==
    IF ~HasKey(field_schema, K_pattern) THEN Appends(<<>>)
    ELSE LET pattern == Get(field_schema, K_pattern)
         IN  IF pattern.t # "str" \/ value.t # "str" THEN Raises("TypeError")
             ELSE IF ~Match(pattern.s, value.s)
             THEN Appends(<<FieldMessage(field_name,
                     <<"' does not match required pattern">>)>>)
             ELSE Appends(<<>>)

CheckEnum(field_name, value, field_schema) ==
    IF ~HasKey(field_schema, K_enum) THEN Appends(<<>>)
    ELSE LET allowed == Get(field_schema, K_enum)
         IN  IF \E i \in DOMAIN allowed.c : allowed.c[i].v = value
             THEN Appends(<<>>)
             ELSE IF \E i \in DOMAIN allowed.c : allowed.c[i].v.t # "str"
             THEN Raises("TypeError")
             ELSE Appends(<<FieldMessage(field_name,
                     <<"' must be one of: ">> \o JoinItems(allowed.c, 1))>>)

CheckFormat(field_name, value, field_schema) ==
    IF ~(HasKey(field_schema, K_format)
            /\ Get(field_schema, K_format) = Str(T_email))
    THEN Appends(<<>>)
    ELSE IF value.t # "str" THEN Raises("TypeError")
    ELSE IF ~EmailMatch(value.s)
    THEN Appends(<<FieldMessage(field_name, <<"' must be a valid email">>)>>)
    ELSE Appends(<<>>)

CheckMinimum(field_name, num_value, field_schema) ==
    IF ~HasKey(field_schema, K_minimum) THEN Appends(<<>>)
    ELSE LET bound == Get(field_schema, K_minimum)
         IN  IF bound.t # "int" THEN Raises("TypeError")
             ELSE IF Below(num_value, bound.n)
             THEN Appends(<<FieldMessage(field_name,
                     <<"' must be at least ", ToString(bound.n)>>)>>)
             ELSE Appends(<<>>)

CheckMaximum(field_name, num_value, field_schema) ==
    IF ~HasKey(field_schema, K_maximum) THEN Appends(<<>>)
    ELSE LET bound == Get(field_schema, K_maximum)
         IN  IF bound.t # "int" THEN Raises("TypeError")
             ELSE IF Above(num_value, bound.n)
             THEN Appends(<<FieldMessage(field_name,
                     <<"' must be at most ", ToString(bound.n)>>)>>)
             ELSE Appends(<<>>)

\* Mutant: after a failed coercion the range is checked all the same, on 0.
Coerced_RangeAnyway(field_name, num_value, field_type, field_schema) ==
    IF num_value.ok
    THEN Then(CheckMinimum(field_name, num_value, field_schema),
              CheckMaximum(field_name, num_value, field_schema))
    ELSE Then(Appends(<<FieldMessage(field_name,
                 <<"' must be a valid ">> \o field_type)>>),
         Then(CheckMinimum(field_name, Number("finite", 0, 1), field_schema),
              CheckMaximum(field_name, Number("finite", 0, 1), field_schema)))

\* The try block after the coercion: the range checks, or the message of
\* "except ValueError".
Coerced(field_name, num_value, field_type, field_schema) ==
    IF num_value.ok
    THEN Then(CheckMinimum(field_name, num_value, field_schema),
              CheckMaximum(field_name, num_value, field_schema))
    ELSE Appends(<<FieldMessage(field_name,
            <<"' must be a valid ">> \o field_type)>>)

\* validate_field_value(field_name, value, field_schema)
validate_field_value(field_name, value, field_schema) ==
    IF field_schema.t # "dict" THEN Raises("AttributeError")
    ELSE LET field_type == IF HasKey(field_schema, K_type)
                           THEN Get(field_schema, K_type)
                           ELSE Str(T_string)
         IN  IF field_type = Str(T_string)
             THEN Then(CheckMinLength(field_name, value, field_schema),
                  Then(CheckMaxLength(field_name, value, field_schema),
                  Then(CheckPattern(field_name, value, field_schema),
                  Then(CheckEnum(field_name, value, field_schema),
                       CheckFormat(field_name, value, field_schema)))))
             ELSE IF field_type \in {Str(T_integer), Str(T_number)}
             THEN IF value.t # "str" THEN Raises("TypeError")
                  ELSE Coerced(field_name,
                               IF field_type = Str(T_integer)
                               THEN int(value.s) ELSE float(value.s),
                               field_type.s, field_schema)
             ELSE Appends(<<>>)

(***************************************************************************)
(* validate_against_schema                                                 *)
(***************************************************************************)
\* d.get(key, default)
GetOr(d, key, default) == IF HasKey(d, key) THEN Get(d, key) ELSE default

\* Mutant: only a missing key counts, an empty string does not.
Lacks_MissingOnly(data, field) == ~HasKey(data, field)

\* "field not in data or data[field] == ''"
Lacks(data, field) == ~HasKey(data, field) \/ Get(data, field) = Str(<<>>)

\* The loop over required_fields from entry i on.
RECURSIVE required_from(_, _, _)
required_from(required_fields, data, i) ==
    IF i > Len(required_fields.c) THEN <<>>
    ELSE (IF Lacks(data, required_fields.c[i].v.s)
          THEN <<RequiredMessage(required_fields.c[i].v.s)>> ELSE <<>>)
            \o required_from(required_fields, data, i + 1)

\* The loop over data.items() from entry i on.
RECURSIVE fields_from(_, _, _, _)
fields_from(data, properties, resolved_schema, i) ==
    IF i > Len(data.c) THEN Appends(<<>>)
    ELSE LET field_name == data.c[i].k
             value == data.c[i].v
         IN  IF HasKey(properties, field_name) /\ Truthy(value)
             THEN LET again_resolved ==
                         resolve_schema_refs(Get(properties, field_name),
                                             resolved_schema)
                  IN  IF IsRaised(again_resolved.r)
                      THEN Raises(again_resolved.r.t)
                      ELSE Then(validate_field_value(field_name, value,
                                                     again_resolved.r),
                                fields_from(data, properties, resolved_schema, i + 1))
             ELSE fields_from(data, properties, resolved_schema, i + 1)

\* validate_against_schema(data, schema): exc is "none" and errors the list
\* returned, or exc is the exception raised and errors the list as it was.
validate_against_schema(data, full_schema) ==
    LET first == resolve_schema_refs(full_schema, full_schema)
        resolved_schema == first.r
    IN  IF IsRaised(resolved_schema) THEN Raises(resolved_schema.t)
        ELSE IF resolved_schema.t # "dict" THEN Raises("AttributeError")
        ELSE LET properties == GetOr(resolved_schema, K_properties, Obj(<<>>))
                 required_fields == GetOr(resolved_schema, K_required, List(<<>>))
             IN  Then(Appends(required_from(required_fields, data, 1)),
                      fields_from(data, properties, resolved_schema, 1))

(***************************************************************************)
(* Schema documents of the resolver's specification.                       *)
(***************************************************************************)
PtrA == <<"#", "/">> \o K_defs \o <<"/", "A">>
PtrB == <<"#", "/">> \o K_defs \o <<"/", "B">>
PtrAbsent == <<"#", "/">> \o K_defs \o <<"/", "C">>
PtrInto == PtrA \o <<"/">> \o K_type
PtrExternal == <<"o", ".", "j", "s", "o", "n">> \o PtrA

Ptrs == {PtrA, PtrB, PtrAbsent, PtrInto, PtrExternal}

RefNode(ptr) == Obj(<<Entry(K_ref, Str(ptr))>>)
StringSchema == Obj(<<Entry(K_type, Str(T_string))>>)

Falsy == {Null, Bool(FALSE), Num(0), Str(<<>>), List(<<>>), Obj(<<>>)}
Plain == Falsy \cup {StringSchema}
RefNodes == {RefNode(ptr) : ptr \in Ptrs}
Wrapped == {Obj(<<Entry(K_items, RefNode(ptr))>>) : ptr \in {PtrA, PtrB}}
             \cup {List(<<RefNode(PtrB), StringSchema>>)}

Nodes == Plain \cup RefNodes \cup Wrapped

Document(p, a, b) ==
    Obj(<<Entry(K_properties, Obj(<<Entry(<<"p">>, p)>>)),
          Entry(K_defs, Obj(<<Entry(<<"A">>, a), Entry(<<"B">>, b)>>))>>)

Documents == {Document(p, a, b) : p \in Nodes, a \in Nodes, b \in Nodes}

NoResult == [r |-> Null, w |-> <<>>]
NoValidation == [exc |-> "none", errors |-> <<>>]

\* Nothing was sent.
NoResponse == [status |-> 0, content_type |-> "none", body |-> <<>>]

\* No request has been handled.
NoExchange ==
    /\ file = [kind |-> "none", doc |-> Null]
    /\ console = <<>>
    /\ request = [method |-> "none", path |-> <<>>, content_length |-> Null,
                  body |-> <<>>]
    /\ response = NoResponse

(***************************************************************************)
(* The resolver's specification: a document is loaded, resolved, and the   *)
(* resolved tree is resolved once more.                                    *)
(***************************************************************************)
InitResolve ==
    /\ NoExchange
    /\ pc = "loaded"
    /\ schema \in Documents
    /\ resolved = NoResult
    /\ again = NoResult
    /\ flat_data = Obj(<<>>)
    /\ nested_data = Obj(<<>>)
    /\ validation = NoValidation

Resolve ==
    /\ pc = "loaded"
    /\ resolved' = resolve_schema_refs(schema, schema)
    /\ pc' = "resolved"
    /\ UNCHANGED <<schema, again, flat_data, nested_data, validation>>
    /\ UNCHANGED <<file, console, request, response>>

ResolveAgain ==
    /\ pc = "resolved"
    /\ ~IsRaised(resolved.r)
    /\ again' = resolve_schema_refs(resolved.r, resolved.r)
    /\ pc' = "again"
    /\ UNCHANGED <<schema, resolved, flat_data, nested_data, validation>>
    /\ UNCHANGED <<file, console, request, response>>

NextResolve == Resolve \/ ResolveAgain

SpecResolve == InitResolve /\ [][NextResolve]_vars

(***************************************************************************)
(* The assembler's specification: a flat submission arrives and is parsed  *)
(* into the nested mapping.                                                *)
(***************************************************************************)
Segments == {<<"x">>, <<"y">>}

\* '.'.join(segs)
RECURSIVE Join(_)
Join(segs) ==
    IF Len(segs) = 1 THEN segs[1] ELSE segs[1] \o <<".">> \o Join(Tail(segs))

Keys == {Join(segs) : segs \in UNION {[1..n -> Segments] : n \in 1..MaxSegments}}

\* The submissions of n keys: distinct keys in arrival order, the i-th
\* holding the string of the digit i.
FlatOf(keys) == Obj([i \in DOMAIN keys |-> Entry(keys[i], Str(<<ToString(i)>>))])

Submissions ==
    {FlatOf(keys) : keys \in
        {ks \in UNION {[1..n -> Keys] : n \in 1..MaxKeys} :
            \A i, j \in DOMAIN ks : i # j => ks[i] # ks[j]}}

InitAssemble ==
    /\ NoExchange
    /\ pc = "received"
    /\ flat_data \in Submissions
    /\ nested_data = Obj(<<>>)
    /\ schema = Obj(<<>>)
    /\ resolved = NoResult
    /\ again = NoResult
    /\ validation = NoValidation

Parse ==
    /\ pc = "received"
    /\ nested_data' = parse_nested_form_data(flat_data)
    /\ pc' = "parsed"
    /\ UNCHANGED <<schema, resolved, again, flat_data, validation>>
    /\ UNCHANGED <<file, console, request, response>>

NextAssemble == Parse

SpecAssemble == InitAssemble /\ [][NextAssemble]_vars

(***************************************************************************)
(* The validator's specification: a form submission arrives, is parsed,    *)
(* and the nested mapping is validated against the schema.                 *)
(***************************************************************************)
F_name == <<"n", "a", "m", "e">>
F_age == <<"a", "g", "e">>
F_age_y == <<"a", "g", "e", ".", "y">>
D_Age == <<"A", "g", "e">>

Schema(entries) == Obj(entries)
TypeOf(type) == Entry(K_type, Str(type))

Range(type, minimum, maximum) ==
    Schema(<<TypeOf(type), Entry(K_minimum, Num(minimum)),
             Entry(K_maximum, Num(maximum))>>)

NameSchemas ==
    {Schema(<<TypeOf(T_string), Entry(K_minLength, Num(3))>>),
     Schema(<<TypeOf(T_string), Entry(K_minLength, Num(3)), Entry(K_maxLength, Num(4))>>),
     Schema(<<TypeOf(T_string), Entry(K_pattern, Str(<<"a", "b">>))>>),
     Schema(<<TypeOf(T_string), Entry(K_enum, List(<<Str(<<"a", "b">>), Str(<<"a", "b", "c">>)>>))>>),
     Schema(<<TypeOf(T_string), Entry(K_format, Str(T_email))>>),
     Schema(<<>>)}

AgeSchemas ==
    {Range(T_integer, 0, 10),
     Range(T_number, 0, 10),
     Range(T_integer, 10, 0),
     Schema(<<TypeOf(T_integer)>>),
     RefNode(<<"#", "/">> \o K_defs \o <<"/">> \o D_Age),
     Schema(<<TypeOf(T_object),
              Entry(K_properties, Obj(<<Entry(<<"y">>, Schema(<<TypeOf(T_integer)>>))>>))>>),
     Schema(<<TypeOf(T_boolean)>>),
     Schema(<<TypeOf(T_string), Entry(K_minLength, Num(3))>>),
     Schema(<<TypeOf(T_string), Entry(K_pattern, Str(<<"^", "5", "$">>))>>)}

RequiredLists ==
    {List(<<>>), List(<<Str(F_name)>>), List(<<Str(F_age)>>),
     List(<<Str(F_name), Str(F_age)>>)}

FormSchema(name_schema, age_schema, required) ==
    Obj(<<Entry(K_properties,
                Obj(<<Entry(F_name, name_schema), Entry(F_age, age_schema)>>)),
          Entry(K_required, required),
          Entry(K_defs, Obj(<<Entry(D_Age, Range(T_integer, 0, 10))>>))>>)

FormSchemas ==
    {FormSchema(n, a, r) : n \in NameSchemas, a \in AgeSchemas, r \in RequiredLists}

NameValues == {<<>>, <<"a", "b">>, <<"a", "b", "c">>, <<"a", "@", "b", ".", "c", "o">>, <<"a", "b", "c", "d", "e">>}
AgeValues == {<<>>, <<"5">>, <<"1", "5">>, <<"a", "b", "c">>, <<"-", "1">>,
              <<"1", ".", "5">>, <<" ", "1", "_", "0">>, <<"n", "a", "n">>}

NameEntries == {<<>>} \cup {<<Entry(F_name, Str(v))>> : v \in NameValues}
AgeEntries ==
    {<<>>} \cup {<<Entry(F_age, Str(v))>> : v \in AgeValues}
           \cup {<<Entry(F_age_y, Str(v))>> : v \in {<<"5">>, <<"a", "b", "c">>}}

FormSubmissions == {Obj(n \o a) : n \in NameEntries, a \in AgeEntries}

InitValidate ==
    /\ NoExchange
    /\ pc = "received"
    /\ schema \in FormSchemas
    /\ flat_data \in FormSubmissions
    /\ nested_data = Obj(<<>>)
    /\ resolved = NoResult
    /\ again = NoResult
    /\ validation = NoValidation

\* handle_validation goes on to the validation when the parse has not raised
Validate ==
    /\ pc = "parsed"
    /\ ~IsRaised(nested_data)
    /\ validation' = validate_against_schema(nested_data, schema)
    /\ pc' = "validated"
    /\ UNCHANGED <<schema, resolved, again, flat_data, nested_data>>
    /\ UNCHANGED <<file, console, request, response>>

NextValidate == Parse \/ Validate

SpecValidate == InitValidate /\ [][NextValidate]_vars

(***************************************************************************)
(* load_schema                                                             *)
(***************************************************************************)
\* A line of the console: its literal text and the value printed in it.
Line(text, data) == [text |-> text, data |-> data]

\* load_schema(): the value returned and the lines printed, for schema.json
\* missing, not JSON ("malformed"), or the JSON text of f.doc.  Either
\* failure is caught, reported on the console and answered with the empty
\* dict.
load_schema(f) ==
    IF f.kind = "missing"
    THEN [schema |-> Obj(<<>>),
          printed |-> <<Line("ERROR: schema.json file not found!", Null)>>]
    ELSE IF f.kind = "malformed"
    THEN [schema |-> Obj(<<>>),
          printed |-> <<Line("ERROR: Invalid JSON in schema.json: ",
                             Str(<<"JSONDecodeError">>))>>]
    ELSE [schema |-> f.doc, printed |-> <<>>]

(***************************************************************************)
(* urllib.parse.parse_qs and json.dumps                                    *)
(***************************************************************************)
\* s.split(sep, 1)
SplitOnce(s, sep) ==
    LET hits == {i \in DOMAIN s : s[i] = sep}
        first == CHOOSE i \in hits : \A j \in hits : i <= j
    IN  IF hits = {} THEN <<s>>
        ELSE <<SubSeq(s, 1, first - 1), SubSeq(s, first + 1, Len(s))>>

\* The loop of parse_qsl over the fields from the i-th on: a field without
\* '=' or with a blank value is dropped (keep_blank_values is False); a '+'
\* stands for a space.  No body of the model holds a percent escape.
RECURSIVE parse_qsl(_, _)
parse_qsl(fields, i) ==
    LET nv == SplitOnce(fields[i], "=")
        unquote(t) == [j \in DOMAIN t |-> IF t[j] = "+" THEN " " ELSE t[j]]
    IN  IF i > Len(fields) THEN <<>>
        ELSE IF Len(nv) # 2 \/ nv[2] = <<>> THEN parse_qsl(fields, i + 1)
        ELSE <<Entry(unquote(nv[1]), Str(unquote(nv[2])))>>
                 \o parse_qsl(fields, i + 1)

\* parse_qs(qs): name -> list of values, names in order of first arrival
RECURSIVE Grouped(_, _, _)
Grouped(pairs, i, acc) ==
    IF i > Len(pairs) THEN acc
    ELSE LET name == pairs[i].k
             sofar == IF HasKey(acc, name) THEN Get(acc, name).c ELSE <<>>
         IN  Grouped(pairs, i + 1,
                     Put(acc, name,
                         V("list", 0, <<>>, Append(sofar, Entry(<<>>, pairs[i].v)))))

parse_qs(qs) ==
    IF qs = <<>> THEN Obj(<<>>)
    ELSE Grouped(parse_qsl(Split(qs, "&"), 1), 1, Obj(<<>>))

\* str(n) of an int
RECURSIVE Decimal(_)
Decimal(n) ==
    LET digit == CHOOSE c \in Digits : DigitValue(c) = n % 10
    IN  IF n < 10 THEN <<digit>> ELSE Decimal(n \div 10) \o <<digit>>

str(n) == IF n < 0 THEN <<"-">> \o Decimal(-n) ELSE Decimal(n)

\* The characters of s as they stand in a JSON string literal.  The
\* characters of the model are ASCII.
RECURSIVE Escaped(_)
Escaped(s) ==
    IF s = <<>> THEN <<>>
    ELSE (CASE Head(s) = "\"" -> <<"\\", "\"">>
            [] Head(s) = "\\" -> <<"\\", "\\">>
            [] Head(s) = "\n" -> <<"\\", "n">>
            [] Head(s) = "\r" -> <<"\\", "r">>
            [] Head(s) = "\t" -> <<"\\", "t">>
            [] OTHER -> <<Head(s)>>) \o Escaped(Tail(s))

\* json.dumps(value, indent=2), the value at nesting `level`
RECURSIVE json_dumps(_, _)
RECURSIVE dumps_items(_, _, _, _)

json_dumps(value, level) ==
    CASE value.t = "null" -> <<"n", "u", "l", "l">>
      [] value.t = "bool" ->
            IF value.n = 1 THEN <<"t", "r", "u", "e">>
            ELSE <<"f", "a", "l", "s", "e">>
      [] value.t = "int" -> str(value.n)
      [] value.t = "str" -> <<"\"">> \o Escaped(value.s) \o <<"\"">>
      [] value.t = "dict" ->
            IF value.c = <<>> THEN <<"{", "}">>
            ELSE <<"{", "\n">> \o dumps_items(value.c, TRUE, level + 1, 1)
                     \o <<"\n">> \o [j \in 1..(2 * level) |-> " "] \o <<"}">>
      [] value.t = "list" ->
            IF value.c = <<>> THEN <<"[", "]">>
            ELSE <<"[", "\n">> \o dumps_items(value.c, FALSE, level + 1, 1)
                     \o <<"\n">> \o [j \in 1..(2 * level) |-> " "] \o <<"]">>

\* The items of a dict (keyed) or of a list from the i-th on, one a line.
dumps_items(entries, keyed, level, i) ==
    LET item == [j \in 1..(2 * level) |-> " "]
                    \o (IF keyed
                        THEN <<"\"">> \o Escaped(entries[i].k) \o <<"\"", ":", " ">>
                        ELSE <<>>)
                    \o json_dumps(entries[i].v, level)
    IN  IF i = Len(entries) THEN item
        ELSE item \o <<",", "\n">> \o dumps_items(entries, keyed, level, i + 1)

(***************************************************************************)
(* generate_html_form_from_schema                                          *)
(*                                                                         *)
(* The page is a sequence of pieces: the literal pieces of the source's    *)
(* strings are one piece each (the style sheet and the script are named,   *)
(* not spelled out), the values printed between them go in character by    *)
(* character.                                                              *)
(***************************************************************************)
K_description == <<"d", "e", "s", "c", "r", "i", "p", "t", "i", "o", "n">>
K_definitions == <<"d", "e", "f", "i", "n", "i", "t", "i", "o", "n", "s">>

\* The page so far, or the exception that ended its generation.
Html(pieces) == [exc |-> "none", html |-> pieces]
Fails(name) == [exc |-> name, html |-> <<>>]
AndThen(a, b) ==
    IF a.exc # "none" THEN a
    ELSE IF b.exc # "none" THEN b
    ELSE Html(a.html \o b.html)

\* f"{value}" of a str, an int, a bool or None.  No schema of the model has
\* a dict or a list printed into the page.
Format(value) ==
    CASE value.t = "str" -> value.s
      [] value.t = "int" -> str(value.n)
      [] value.t = "bool" ->
            IF value.n = 1 THEN <<"T", "r", "u", "e">>
            ELSE <<"F", "a", "l", "s", "e">>
      [] value.t = "null" -> <<"N", "o", "n", "e">>

\* s.lower() of ASCII characters
LowerAll(s) ==
    LET lower == <<"a", "b", "c", "d", "e", "f", "g", "h", "i", "j", "k", "l", "m",
                   "n", "o", "p", "q", "r", "s", "t", "u", "v", "w", "x", "y", "z">>
        upper == <<"A", "B", "C", "D", "E", "F", "G", "H", "I", "J", "K", "L", "M",
                   "N", "O", "P", "Q", "R", "S", "T", "U", "V", "W", "X", "Y", "Z">>
    IN  [i \in DOMAIN s |->
            IF s[i] \in UpperLetters
            THEN lower[CHOOSE j \in DOMAIN upper : upper[j] = s[i]]
            ELSE s[i]]

\* field_name.replace('_', ' ').replace('-', ' ').title(): a letter after a
\* letter is lowered, any other letter is raised
Title(field_name) ==
    LET lower == <<"a", "b", "c", "d", "e", "f", "g", "h", "i", "j", "k", "l", "m",
                   "n", "o", "p", "q", "r", "s", "t", "u", "v", "w", "x", "y", "z">>
        upper == <<"A", "B", "C", "D", "E", "F", "G", "H", "I", "J", "K", "L", "M",
                   "N", "O", "P", "Q", "R", "S", "T", "U", "V", "W", "X", "Y", "Z">>
        s == [i \in DOMAIN field_name |->
                 IF field_name[i] \in {"_", "-"} THEN " " ELSE field_name[i]]
    IN  [i \in DOMAIN s |->
            IF i > 1 /\ s[i - 1] \in Letters THEN LowerAll(<<s[i]>>)[1]
            ELSE IF s[i] \in LowerLetters
            THEN upper[CHOOSE j \in DOMAIN lower : lower[j] = s[i]]
            ELSE s[i]]

\* get_input_type(field_schema)
get_input_type(field_schema) ==
    LET field_type == GetOr(field_schema, K_type, Str(T_string))
        field_format == GetOr(field_schema, K_format, Str(<<>>))
    IN  IF field_type = Str(T_string) THEN
            IF field_format = Str(T_email) THEN "email"
            ELSE IF field_format = Str(<<"d", "a", "t", "e">>) THEN "date"
            ELSE IF field_format = Str(<<"d", "a", "t", "e", "-", "t", "i", "m", "e">>)
            THEN "datetime-local"
            ELSE IF HasKey(field_schema, K_enum) THEN "select"
            ELSE "text"
        ELSE IF field_type = Str(T_integer) THEN "number"
        ELSE IF field_type = Str(T_number) THEN "number"
        ELSE IF field_type = Str(T_boolean) THEN "checkbox"
        ELSE IF field_type = Str(<<"a", "r", "r", "a", "y">>) THEN "textarea"
        ELSE IF field_type = Str(T_object) THEN "fieldset"
        ELSE "text"

\* ' attr="{field_schema[key]}"' when field_schema.get(key) is truthy
Attribute(field_schema, key, attr) ==
    IF Truthy(GetOr(field_schema, key, Null))
    THEN <<attr>> \o Format(Get(field_schema, key)) \o <<"\"">>
    ELSE <<>>

\* The loop over the options of a select from the i-th on.
RECURSIVE Options(_, _)
Options(enum, i) ==
    IF i > Len(enum.c) THEN <<>>
    ELSE <<"    <option value=\"">> \o Format(enum.c[i].v) \o <<"\">">>
             \o Format(enum.c[i].v) \o <<"</option>\n">> \o Options(enum, i + 1)

RECURSIVE generate_field_html(_, _, _, _, _)
RECURSIVE generate_fields(_, _, _, _, _)

\* generate_field_html(field_name, field_schema, is_required, parent_path),
\* with the resolved_schema of the enclosing function
generate_field_html(field_name, given_schema, is_required, parent_path, resolved_schema) ==
    LET field_schema ==
            IF given_schema.t = "dict" /\ HasKey(given_schema, K_ref)
            THEN resolve_schema_refs(given_schema, resolved_schema).r
            ELSE given_schema
    IN  \* "'$ref' in field_schema" on None, a bool or an int
        IF given_schema.t \in {"null", "bool", "int"} THEN Fails("TypeError")
        ELSE IF IsRaised(field_schema) THEN Fails(field_schema.t)
        \* field_schema.get on what is not a dict
        ELSE IF field_schema.t # "dict" THEN Fails("AttributeError")
        ELSE
        LET input_type == get_input_type(field_schema)
            description == GetOr(field_schema, K_description, Str(<<>>))
            full_field_name ==
                IF parent_path # <<>> THEN parent_path \o <<".">> \o field_name
                ELSE field_name
            required_indicator ==
                IF is_required THEN <<"<span class=\"required\">*</span>">>
                ELSE <<>>
            required == IF is_required THEN <<" required">> ELSE <<>>
            label_text == Title(field_name)
            label ==
                <<"<div class=\"form-group\">\n", "  <label for=\"">>
                    \o full_field_name \o <<"\">">> \o label_text \o <<" ">>
                    \o required_indicator \o <<"</label>\n">>
                    \o (IF Truthy(description)
                        THEN <<"  <small class=\"field-description\">">>
                                 \o Format(description) \o <<"</small>\n">>
                        ELSE <<>>)
            named ==
                <<" name=\"">> \o full_field_name \o <<"\" id=\"">>
                    \o full_field_name \o <<"\"">>
            close == Html(<<"</div>\n">>)
        IN  IF input_type = "select" THEN
                AndThen(Html(label \o <<"  <select">> \o named \o required
                                 \o <<">\n">>
                                 \o <<"    <option value=\"\">Select...</option>\n">>
                                 \o Options(GetOr(field_schema, K_enum, List(<<>>)), 1)
                                 \o <<"  </select>\n">>),
                        close)
            ELSE IF input_type = "textarea" THEN
                AndThen(Html(label \o <<"  <textarea">> \o named
                                 \o <<" placeholder=\"Enter JSON array\"">>
                                 \o required \o <<"></textarea>\n">>),
                        close)
            ELSE IF input_type = "fieldset" THEN
                LET nested_properties == GetOr(field_schema, K_properties, Obj(<<>>))
                    nested_required == GetOr(field_schema, K_required, List(<<>>))
                IN  AndThen(Html(label \o <<"  <fieldset class=\"nested-object\">\n">>
                                     \o <<"    <legend>">> \o label_text
                                     \o <<"</legend>\n">>),
                    AndThen(generate_fields(nested_properties, nested_required,
                                            full_field_name, resolved_schema, 1),
                    AndThen(Html(<<"  </fieldset>\n">>), close)))
            ELSE IF input_type = "checkbox" THEN
                AndThen(Html(label \o <<"  <input type=\"checkbox\"">> \o named
                                 \o <<" value=\"true\">\n">>),
                        close)
            ELSE
                AndThen(Html(label \o <<"  <input type=\"", input_type, "\"">>
                                 \o named
                                 \o Attribute(field_schema, K_minLength, " minlength=\"")
                                 \o Attribute(field_schema, K_maxLength, " maxlength=\"")
                                 \o Attribute(field_schema, K_minimum, " min=\"")
                                 \o Attribute(field_schema, K_maximum, " max=\"")
                                 \o Attribute(field_schema, K_pattern, " pattern=\"")
                                 \o required
                                 \o <<" placeholder=\"Enter ">> \o LowerAll(label_text)
                                 \o (IF Truthy(GetOr(field_schema, K_pattern, Null))
                                     THEN <<" (pattern: ">>
                                              \o Format(Get(field_schema, K_pattern))
                                              \o <<")">>
                                     ELSE <<>>)
                                 \o <<"\">\n">>),
                        close)

\* The loop over properties.items() from the i-th on; a field is required
\* when its name is in required_fields.
generate_fields(properties, required_fields, parent_path, resolved_schema, i) ==
    IF i > Len(properties.c) THEN Html(<<>>)
    ELSE AndThen(generate_field_html(
                     properties.c[i].k, properties.c[i].v,
                     \E j \in DOMAIN required_fields.c :
                         required_fields.c[j].v = Str(properties.c[i].k),
                     parent_path, resolved_schema),
                 generate_fields(properties, required_fields, parent_path,
                                 resolved_schema, i + 1))

\* generate_html_form_from_schema(schema)
generate_html_form_from_schema(given) ==
    LET resolved_schema == resolve_schema_refs(given, given).r
    IN  IF IsRaised(resolved_schema) THEN Fails(resolved_schema.t)
        ELSE IF resolved_schema.t # "dict" THEN Fails("AttributeError")
        ELSE
        LET title == GetOr(resolved_schema, <<"t", "i", "t", "l", "e">>,
                           Str(<<"Dynamic Form">>))
            description == GetOr(resolved_schema, K_description,
                                 Str(<<"Form generated from JSON Schema">>))
            def_count ==
                PyLen(GetOr(given, K_definitions, Obj(<<>>)))
                    + PyLen(GetOr(given, K_defs, Obj(<<>>)))
            debug_info ==
                IF HasKey(given, K_definitions) \/ HasKey(given, K_defs)
                THEN <<"<div class=\"debug-info\">Schema contains ">>
                         \o str(def_count)
                         \o <<" definitions that will be resolved automatically</div>">>
                ELSE <<>>
            properties == GetOr(resolved_schema, K_properties, Obj(<<>>))
            required_fields == GetOr(resolved_schema, K_required, List(<<>>))
        IN  AndThen(Html(<<"<!DOCTYPE html>", "<style>", "<div class=\"container\">">>
                             \o <<"<h1>">> \o Format(title) \o <<"</h1>">>
                             \o <<"<div class=\"schema-info\">">> \o Format(description)
                             \o <<"</div>">> \o debug_info
                             \o <<"<strong>Schema ID:</strong> ">>
                             \o Format(GetOr(resolved_schema, <<"$", "i", "d">>,
                                             Str(<<"Not specified">>)))
                             \o <<"<strong>Schema Version:</strong> ">>
                             \o Format(GetOr(resolved_schema,
                                             <<"$", "s", "c", "h", "e", "m", "a">>,
                                             Str(<<"Not specified">>)))
                             \o <<"<form id=\"dynamicForm\">">>),
            AndThen(generate_fields(properties, required_fields, <<>>,
                                    resolved_schema, 1),
                    Html(<<"<button type=\"submit\">Submit & Validate</button>",
                           "</form>", "<script>", "</html>">>)))

(***************************************************************************)
(* DynamicSchemaServer                                                     *)
(***************************************************************************)
Response(status, content_type, body) ==
    [status |-> status, content_type |-> content_type, body |-> body]

\* send_error(404): the error page of http.server, one piece.
NotFound == Response(404, "text/html;charset=utf-8", <<"Error response">>)

\* What do_POST leaves behind: where it ended (the validation completed, the
\* except clause ran, or the path was not /validate), its locals, the lines
\* printed and the response sent.
Handled(at, flat, nested, result, printed, answer) ==
    [pc |-> at, flat_data |-> flat, nested_data |-> nested,
     validation |-> result, printed |-> printed, response |-> answer]

\* Mutant: a submission with validation errors is answered with the errors.
Payload_WithErrors(nested, errors) ==
    IF errors = <<>> THEN nested
    ELSE Obj(<<Entry(<<"e", "r", "r", "o", "r", "s">>,
                     List([i \in DOMAIN errors |-> Str(errors[i])]))>>)

\* "json.dumps(nested_data, indent=2)" -- what is serialized into the body
Payload(nested, errors) == nested

\* handle_validation(): the request's Content-Length header is None when the
\* header is absent; rfile.read takes that many characters of the body (no
\* request of the model announces more than it sends).  str(e), the
\* interpreter's text for an exception, is one piece per exception type.
handle_validation(self_schema, req) ==
    LET content_length ==
            IF req.content_length.t = "str" THEN int(req.content_length.s)
            ELSE ValueError
        post_data == SubSeq(req.body, 1, content_length.num)
        form_data == parse_qs(post_data)
        \* "flat_data[key] = value[0] if value else ''"
        flat == Obj([i \in DOMAIN form_data.c |->
                        Entry(form_data.c[i].k,
                              IF form_data.c[i].v.c # <<>>
                              THEN form_data.c[i].v.c[1].v
                              ELSE Str(<<>>))])
        nested == parse_nested_form_data(flat)
        validation_errors == validate_against_schema(nested, self_schema)
        received == <<Line("Received flat form data: ", flat)>>
        converted == <<Line("Converted to nested data: ", nested)>>
        \* the except clause
        failed(exc, reached_flat, reached_nested, result, printed) ==
            Handled("failed", reached_flat, reached_nested, result,
                    printed \o <<Line("Error in validation: ", Str(<<exc>>))>>,
                    Response(500, "application/json",
                             json_dumps(Obj(<<Entry(<<"e", "r", "r", "o", "r">>,
                                                    Str(<<exc>>))>>), 0)))
    IN  IF req.content_length.t # "str"
        THEN failed("TypeError", Obj(<<>>), Obj(<<>>), NoValidation, <<>>)
        ELSE IF ~content_length.ok
        THEN failed("ValueError", Obj(<<>>), Obj(<<>>), NoValidation, <<>>)
        ELSE IF IsRaised(nested)
        THEN failed(nested.t, flat, nested, NoValidation, received)
        ELSE IF validation_errors.exc # "none"
        THEN failed(validation_errors.exc, flat, nested, validation_errors,
                    received \o converted)
        ELSE Handled("validated", flat, nested, validation_errors,
                     received \o converted
                         \o <<IF validation_errors.errors # <<>>
                              THEN Line("VALIDATION FAILED: ",
                                        validation_errors.errors)
                              ELSE Line("VALIDATION PASSED: All data valid according to schema",
                                        Null)>>,
                     Response(200, "application/json",
                              json_dumps(Payload(nested, validation_errors.errors),
                                         0)))

(***************************************************************************)
(* The server's specification: requests arrive one after another; each is  *)
(* given a handler of its own, whose constructor loads schema.json as it   *)
(* is then, and is answered by do_GET or do_POST.                          *)
(***************************************************************************)
Root == <<"/">>
Dashboard == <<"/", "d", "a", "s", "h", "b", "o", "a", "r", "d">>
ValidatePath == <<"/", "v", "a", "l", "i", "d", "a", "t", "e">>

\* schema.json: missing, not JSON, or one of six documents: the empty
\* schema; a strict form (name of three characters at least, age an integer
\* of 0..10, both required); a lax one (age by $ref, nothing required); one
\* whose age is a nested object; one of a choice and a checkbox; one whose
\* $refs form a cycle.
Files ==
    {[kind |-> "missing", doc |-> Null], [kind |-> "malformed", doc |-> Null]}
        \cup {[kind |-> "json", doc |-> doc] : doc \in
                {Obj(<<>>),
                 FormSchema(Schema(<<TypeOf(T_string), Entry(K_minLength, Num(3))>>),
                            Range(T_integer, 0, 10),
                            List(<<Str(F_name), Str(F_age)>>)),
                 FormSchema(Schema(<<>>),
                            RefNode(<<"#", "/">> \o K_defs \o <<"/">> \o D_Age),
                            List(<<>>)),
                 FormSchema(Schema(<<TypeOf(T_string), Entry(K_format, Str(T_email))>>),
                            Schema(<<TypeOf(T_object),
                                     Entry(K_properties,
                                           Obj(<<Entry(<<"y">>,
                                                       Schema(<<TypeOf(T_integer)>>))>>)),
                                     Entry(K_required, List(<<Str(<<"y">>)>>))>>),
                            List(<<Str(F_age)>>)),
                 FormSchema(Schema(<<TypeOf(T_string),
                                     Entry(K_enum, List(<<Str(<<"a", "b">>),
                                                          Str(<<"a", "b", "c">>)>>))>>),
                            Schema(<<TypeOf(T_boolean)>>),
                            List(<<Str(F_name)>>)),
                 Document(RefNode(PtrA), RefNode(PtrB), RefNode(PtrA))}}

\* The body of a form post: name=value fields joined by '&'.
Field(name, value) == name \o <<"=">> \o value

RECURSIVE Form(_)
Form(fields) ==
    IF fields = <<>> THEN <<>>
    ELSE IF Len(fields) = 1 THEN fields[1]
    ELSE fields[1] \o <<"&">> \o Form(Tail(fields))

Bodies ==
    {Form(<<>>),
     Form(<<Field(F_name, <<"a", "b">>), Field(F_age, <<"5">>)>>),
     Form(<<Field(F_name, <<"a", "b", "c">>), Field(F_age, <<"a", "b", "c">>)>>),
     Form(<<Field(F_name, <<"a", "@", "b", ".", "c", "o">>),
            Field(F_age, <<"-", "1">>)>>),
     Form(<<Field(F_age_y, <<"5">>)>>),
     Form(<<Field(F_age, <<"5">>), Field(F_age_y, <<"5">>)>>),
     \* a blank value, a name sent twice, and characters that are escaped
     Form(<<Field(F_name, <<>>), Field(F_name, <<"a", "\"", "+", "\\", "b">>),
            Field(F_age, <<"1", "5">>), Field(F_age, <<"7">>)>>)}

\* The requests: GET of /, /dashboard and /x; the posts the page's script
\* sends to /validate, each with the length of its body; a post to /x; and
\* posts without the Content-Length header, with one that is no number and
\* with one that announces the first field only.
Requests ==
    LET Request(method, path, content_length, body) ==
            [method |-> method, path |-> path,
             content_length |-> content_length, body |-> body]
    IN  {Request("GET", path, Null, <<>>) :
            path \in {Root, Dashboard, <<"/", "x">>}}
            \cup {Request("POST", ValidatePath, Str(str(Len(body))), body) :
                     body \in Bodies}
            \cup {Request("POST", <<"/", "x">>, Str(<<"0">>), <<>>)}
            \cup {Request("POST", ValidatePath, length,
                          Form(<<Field(F_name, <<"a", "b">>),
                                 Field(F_age, <<"5">>)>>)) :
                     length \in {Null, Str(<<"a", "b">>), Str(<<"7">>)}}

Init ==
    /\ pc = "listening"
    /\ schema = Obj(<<>>)
    /\ resolved = NoResult
    /\ again = NoResult
    /\ flat_data = Obj(<<>>)
    /\ nested_data = Obj(<<>>)
    /\ validation = NoValidation
    /\ NoExchange

\* A request arrives and is given a handler: __init__ loads schema.json as
\* it is then.
Accept ==
    \E f \in Files, req \in Requests :
        /\ pc # "constructed"
        /\ file' = f
        /\ request' = req
        /\ schema' = load_schema(f).schema
        /\ console' = load_schema(f).printed
        /\ response' = NoResponse
        /\ resolved' = NoResult
        /\ again' = NoResult
        /\ flat_data' = Obj(<<>>)
        /\ nested_data' = Obj(<<>>)
        /\ validation' = NoValidation
        /\ pc' = "constructed"

\* do_GET.  An exception in the generation of the page leaves do_GET, and
\* nothing is sent.
do_GET ==
    /\ pc = "constructed"
    /\ request.method = "GET"
    /\ console' = console \o <<Line("GET request: ", Str(request.path))>>
    /\ UNCHANGED <<schema, again, flat_data, nested_data, validation, file,
                   request>>
    /\ IF request.path = Root \/ request.path = Dashboard
       THEN \E page \in {generate_html_form_from_schema(schema)} :
                /\ resolved' = resolve_schema_refs(schema, schema)
                /\ response' = IF page.exc # "none" THEN NoResponse
                               ELSE Response(200, "text/html; charset=utf-8",
                                             page.html)
                /\ pc' = IF page.exc # "none" THEN "raised" ELSE "served"
       ELSE /\ resolved' = NoResult
            /\ response' = NotFound
            /\ pc' = "not found"

\* do_POST and, for /validate, handle_validation.
do_POST ==
    /\ pc = "constructed"
    /\ request.method = "POST"
    /\ UNCHANGED <<schema, resolved, again, file, request>>
    /\ \E done \in {IF request.path = ValidatePath
                    THEN handle_validation(schema, request)
                    ELSE Handled("not found", Obj(<<>>), Obj(<<>>), NoValidation,
                                 <<>>, NotFound)} :
           /\ console' = console \o <<Line("POST request: ", Str(request.path))>>
                             \o done.printed
           /\ flat_data' = done.flat_data
           /\ nested_data' = done.nested_data
           /\ validation' = done.validation
           /\ response' = done.response
           /\ pc' = done.pc

Next == Accept \/ do_GET \/ do_POST

Spec == Init /\ [][Next]_vars

(***************************************************************************)
(* Vocabulary of the resolver's properties.                                *)
(***************************************************************************)
\* The pointers of the $ref nodes of a tree, at any depth.
RECURSIVE PtrsIn(_)
PtrsIn(v) ==
    IF v.t = "dict" /\ HasKey(v, K_ref) THEN {Get(v, K_ref).s}
    ELSE UNION {PtrsIn(v.c[i].v) : i \in DOMAIN v.c}

\* The tree holds a $ref key at some depth.
HasRef(v) == PtrsIn(v) # {}

\* The pointer names a value of the document: its lookup does not fail.
Names(ptr, doc) == resolve_ref(ptr, doc).w = <<>>
Referent(ptr, doc) == resolve_ref(ptr, doc).v

\* The pointers a pointer's referent holds, and those reached through them.
PtrStep(S, doc) ==
    UNION {IF Names(q, doc) THEN PtrsIn(Referent(q, doc)) ELSE {} : q \in S}

RECURSIVE PtrClosure(_, _)
PtrClosure(S, doc) ==
    LET T == S \cup PtrStep(S, doc)
    IN  IF T = S THEN S ELSE PtrClosure(T, doc)

ReachedFrom(ptr, doc) == PtrClosure(PtrStep({ptr}, doc), doc)

\* The document's $ref pointers form a direct or indirect cycle.
Cyclic(doc) == \E ptr \in PtrsIn(doc) : ptr \in ReachedFrom(ptr, doc)

PropertyP(doc) == Get(Get(doc, K_properties), <<"p">>)
DefA(doc) == Get(Get(doc, K_defs), <<"A">>)
DefB(doc) == Get(Get(doc, K_defs), <<"B">>)

\* A $ref node whose pointer cannot be looked up.
FailingRef(node, doc) ==
    /\ node.t = "dict"
    /\ HasKey(node, K_ref)
    /\ ~Names(Get(node, K_ref).s, doc)

(***************************************************************************)
(* C1: for a document whose $ref pointers form a cycle, the resolution     *)
(* ends by returning a tree, and the tree still holds a $ref node.         *)
(* The code keeps no set of pointers in progress: it recurses until the    *)
(* interpreter raises RecursionError.                                      *)
(***************************************************************************)
C1_CycleResolves ==
    (pc = "resolved" /\ Cyclic(schema)) =>
        (~IsRaised(resolved.r) /\ HasRef(resolved.r))

(***************************************************************************)
(* C2: in the tree resolved from an acyclic document, every $ref node      *)
(* left is one whose pointer lookup failed: a pointer that names a value   *)
(* of the document, be it empty, 0, false or null, is replaced.            *)
(* The code tests the referent's truth value, so a falsy referent is       *)
(* taken for a failed lookup.                                              *)
(***************************************************************************)
C2_OnlyFailedLookupsRemain ==
    (pc = "resolved" /\ ~Cyclic(schema)) =>
        \A ptr \in PtrsIn(resolved.r) : ~Names(ptr, schema)

(***************************************************************************)
(* C3: a $ref node whose pointer cannot be looked up (a segment absent, a  *)
(* value on the way that is no mapping, a pointer that is not internal)    *)
(* never makes the resolution raise: the call raises only if it also does  *)
(* with null in the node's place.  When it returns, the node is unchanged  *)
(* at its position and every other entry is resolved as it is on its own;  *)
(* with the failing property replaced by null, $defs resolves the same.    *)
(***************************************************************************)
Positions ==
    {<<K_properties, <<"p">>>>, <<K_defs, <<"A">>>>, <<K_defs, <<"B">>>>}
At(doc, pos) == Get(Get(doc, pos[1]), pos[2])

\* The document with `node` at the position.
Replaced(doc, pos, node) ==
    Document(IF pos[2] = <<"p">> THEN node ELSE PropertyP(doc),
             IF pos[2] = <<"A">> THEN node ELSE DefA(doc),
             IF pos[2] = <<"B">> THEN node ELSE DefB(doc))

Resolved(doc) == resolve_schema_refs(doc, doc).r

SomeFailingRef(doc) == \E pos \in Positions : FailingRef(At(doc, pos), doc)

C3_FailedLookupIsLocal ==
    (pc = "resolved" /\ SomeFailingRef(schema)) =>
        /\ \A pos \in Positions :
              FailingRef(At(schema, pos), schema) =>
                 (IsRaised(resolved.r)
                     <=> IsRaised(Resolved(Replaced(schema, pos, Null))))
        /\ ~Cyclic(schema) => ~IsRaised(resolved.r)
        /\ ~IsRaised(resolved.r) =>
              /\ \A pos \in Positions :
                    At(resolved.r, pos) =
                       IF FailingRef(At(schema, pos), schema)
                       THEN At(schema, pos)
                       ELSE resolve_schema_refs(At(schema, pos), schema).r
              /\ FailingRef(PropertyP(schema), schema) =>
                    Get(resolved.r, K_defs) =
                       Get(Resolved(Replaced(schema, <<K_properties, <<"p">>>>, Null)),
                           K_defs)

C3_Witness ==
    /\ pc = "resolved"
    /\ ~Cyclic(schema)
    /\ FailingRef(PropertyP(schema), schema)
    /\ DefA(schema) = RefNode(PtrB)
    /\ DefA(resolved.r) = StringSchema
    /\ PropertyP(resolved.r) = PropertyP(schema)

(***************************************************************************)
(* C7: a chain of references is dereferenced to the end: where a property  *)
(* refers to a definition, and every pointer met on the way names a value, *)
(* the property holds the final content with no $ref key left in it.       *)
(* The chain stops at a falsy final target (C2).                           *)
(***************************************************************************)
ChainFrom(node, doc) ==
    LET first == PtrsIn(node) IN PtrClosure(first, doc)

C7_ChainFullyDereferenced ==
    (/\ pc = "resolved"
     /\ ~Cyclic(schema)
     /\ HasRef(PropertyP(schema))
     /\ \A ptr \in ChainFrom(PropertyP(schema), schema) : Names(ptr, schema)) =>
        (~IsRaised(resolved.r) /\ ~HasRef(PropertyP(resolved.r)))

(***************************************************************************)
(* C10: resolving a tree without any $ref key returns an equal tree and    *)
(* prints no warning; so resolving a fully resolved result once more       *)
(* changes nothing.                                                        *)
(***************************************************************************)
C10_ResolvedTreeIsFixpoint ==
    /\ (pc = "resolved" /\ ~HasRef(schema)) =>
          (resolved.r = schema /\ resolved.w = <<>>)
    /\ (pc = "again" /\ ~HasRef(resolved.r)) =>
          (again.r = resolved.r /\ again.w = <<>>)

C10_Witness ==
    /\ pc = "again"
    /\ HasRef(schema)
    /\ ~HasRef(resolved.r)
    /\ PropertyP(resolved.r) = StringSchema
    /\ again.r = resolved.r
    /\ again.w = <<>>

(***************************************************************************)
(* Vocabulary of the assembler's properties.                               *)
(***************************************************************************)
Segs(key) == Split(key, ".")

ProperPrefix(a, b) == Len(a) < Len(b) /\ SubSeq(b, 1, Len(a)) = a

\* Some key of the submission is a proper dotted prefix of another.
Collision(flat) ==
    \E i, j \in DOMAIN flat.c : ProperPrefix(Segs(flat.c[i].k), Segs(flat.c[j].k))

\* The leaves of a nested mapping, each with the path of keys that reaches
\* it from the root (an empty dict below the root counts as a leaf).
RECURSIVE LeavesAt(_, _)
LeavesAt(v, path) ==
    IF v.t = "dict" /\ v.c # <<>>
    THEN UNION {LeavesAt(v.c[i].v, Append(path, v.c[i].k)) : i \in DOMAIN v.c}
    ELSE {<<path, v>>}

Leaves(tree) == LeavesAt(tree, <<>>)

\* No dict of the tree holds a key twice.
RECURSIVE DistinctKeys(_)
DistinctKeys(v) ==
    /\ \A i, j \in DOMAIN v.c : (i # j /\ v.t = "dict") => v.c[i].k # v.c[j].k
    /\ \A i \in DOMAIN v.c : DistinctKeys(v.c[i].v)

\* Two results are equal as Python dicts: the same leaves under the same paths.
SameMapping(a, b) ==
    /\ ~IsRaised(a) /\ ~IsRaised(b)
    /\ DistinctKeys(a) /\ DistinctKeys(b)
    /\ Leaves(a) = Leaves(b)

\* The submission with its entries in every other arrival order.
Orders(flat) ==
    {Obj([i \in DOMAIN flat.c |-> flat.c[f[i]]]) :
        f \in {g \in [DOMAIN flat.c -> DOMAIN flat.c] :
                  \A i, j \in DOMAIN flat.c : i # j => g[i] # g[j]}}

(***************************************************************************)
(* C4: a submission holding a key k and a key k.s is parsed without a      *)
(* fault, the key processed later overwriting the earlier one at k:        *)
(* k then k.s gives {k: {s: value of k.s}}, k.s then k gives {k: value of  *)
(* k}.  The code walks k.s into the str stored at k and raises TypeError.  *)
(***************************************************************************)
C4_CollisionOverwrites ==
    pc = "parsed" =>
        /\ Collision(flat_data) => ~IsRaised(nested_data)
        /\ \A k, s \in Segments :
              /\ flat_data = FlatOf(<<k, Join(<<k, s>>)>>) =>
                    nested_data = Obj(<<Entry(k, Obj(<<Entry(s, Str(<<"2">>))>>))>>)
              /\ flat_data = FlatOf(<<Join(<<k, s>>), k>>) =>
                    nested_data = Obj(<<Entry(k, Str(<<"2">>))>>)

(***************************************************************************)
(* C6: for a submission in which no key is a proper dotted prefix of       *)
(* another, the result is the tree whose leaves are the submitted values,  *)
(* each under the path of its key's dot-separated segments, with nothing   *)
(* else in it; and every arrival order of the entries gives that mapping.  *)
(***************************************************************************)
C6_TreeOfDottedPaths ==
    (pc = "parsed" /\ ~Collision(flat_data)) =>
        /\ nested_data.t = "dict"
        /\ DistinctKeys(nested_data)
        /\ Leaves(nested_data) =
              {<<Segs(flat_data.c[i].k), flat_data.c[i].v>> : i \in DOMAIN flat_data.c}
        /\ \A other \in Orders(flat_data) :
              SameMapping(parse_nested_form_data(other), nested_data)

\* {"x.y.x": "1", "x.y.y": "2"} gives {"x": {"y": {"x": "1", "y": "2"}}}
C6_Witness ==
    /\ pc = "parsed"
    /\ flat_data = FlatOf(<<<<"x", ".", "y", ".", "x">>, <<"x", ".", "y", ".", "y">>>>)
    /\ ~Collision(flat_data)
    /\ nested_data =
          Obj(<<Entry(<<"x">>,
                   Obj(<<Entry(<<"y">>,
                            Obj(<<Entry(<<"x">>, Str(<<"1">>)),
                                  Entry(<<"y">>, Str(<<"2">>))>>))>>))>>)

(***************************************************************************)
(* Vocabulary of the validator's properties.                               *)
(***************************************************************************)
\* The schema's required list names the field.
InRequired(field) ==
    /\ HasKey(schema, K_required)
    /\ \E i \in DOMAIN Get(schema, K_required).c :
          Get(schema, K_required).c[i].v = Str(field)

\* The submission's top-level value for the field is missing or empty.
MissingOrEmpty(field) ==
    ~HasKey(nested_data, field) \/ Get(nested_data, field) = Str(<<>>)

FieldTexts ==
    {"' must be at least ", "' must be at most ",
     "' does not match required pattern", "' must be one of: ",
     "' must be a valid email", "' must be a valid "}

\* The message is a per-field message about the field.
AboutField(message, field) ==
    /\ Len(message) >= Len(field) + 2
    /\ message[1] = "'"
    /\ SubSeq(message, 2, Len(field) + 1) = field
    /\ message[Len(field) + 2] \in FieldTexts

IsAboutAge(message) == AboutField(message, F_age)
AgeMessages == SelectSeq(validation.errors, IsAboutAge)

Occurrences(messages, message) ==
    Cardinality({i \in DOMAIN messages : messages[i] = message})

\* The schema of the property, with its reference followed.
PropertySchema(field) ==
    resolve_schema_refs(Get(Get(schema, K_properties), field), schema).r

(***************************************************************************)
(* C5: validate_against_schema raises for no submission: it returns its    *)
(* list, which holds the messages of every field of the submission.        *)
(* A nested mapping submitted for a property of type integer or number, or *)
(* for one with a pattern or the email format, raises TypeError.           *)
(***************************************************************************)
C5_NeverRaises ==
    pc = "validated" =>
        /\ validation.exc = "none"
        /\ \A i \in DOMAIN nested_data.c :
              LET field == nested_data.c[i].k
                  own == validate_field_value(field, nested_data.c[i].v,
                                              PropertySchema(field))
              IN  Truthy(nested_data.c[i].v) =>
                    \A j \in DOMAIN own.errors :
                        Occurrences(validation.errors, own.errors[j]) >= 1

(***************************************************************************)
(* C8: the required pass appends "Field '<name>' is required" exactly for  *)
(* the names of the required list that the submission lacks or holds empty;*)
(* a missing or empty field gets no per-field message.  For required name  *)
(* of type string with minLength 3, a submission without name gives just   *)
(* the required message and name "ab" gives just the length message.       *)
(***************************************************************************)
C8_RequiredPass ==
    pc = "validated" =>
        /\ \A field \in {F_name, F_age} :
              /\ Occurrences(validation.errors,
                             <<"Field '">> \o field \o <<"' is required">>)
                    = IF InRequired(field) /\ MissingOrEmpty(field) THEN 1 ELSE 0
              /\ MissingOrEmpty(field) =>
                    \A i \in DOMAIN validation.errors :
                        ~AboutField(validation.errors[i], field)
        /\ (/\ PropertySchema(F_name) =
                  Schema(<<TypeOf(T_string), Entry(K_minLength, Num(3))>>)
            /\ Get(schema, K_required) = List(<<Str(F_name)>>)) =>
              /\ flat_data = Obj(<<>>) =>
                    /\ validation.exc = "none"
                    /\ validation.errors = <<<<"Field '">> \o F_name \o <<"' is required">>>>
              /\ flat_data = Obj(<<Entry(F_name, Str(<<"a", "b">>))>>) =>
                    /\ validation.exc = "none"
                    /\ validation.errors =
                          <<<<"'">> \o F_name \o <<"' must be at least ", "3", " characters">>>>

\* name is required, submitted empty, and has a length constraint
C8_Witness ==
    /\ pc = "validated"
    /\ InRequired(F_name)
    /\ HasKey(nested_data, F_name)
    /\ Get(nested_data, F_name) = Str(<<>>)
    /\ HasKey(PropertySchema(F_name), K_minLength)
    /\ ~HasKey(nested_data, F_age)
    /\ validation.exc = "none"
    /\ validation.errors = <<<<"Field '">> \o F_name \o <<"' is required">>>>

(***************************************************************************)
(* C9: for a property of type integer or number and a submitted string,    *)
(* a failed coercion gives exactly the coercion message and no range       *)
(* message; a successful one gives one message for each of minimum and     *)
(* maximum that the value violates, and nothing else.  With minimum 0 and  *)
(* maximum 10: "5" gives nothing, "abc" the coercion message, "15" one     *)
(* range message.                                                          *)
(***************************************************************************)
Numeric(field_schema) ==
    /\ HasKey(field_schema, K_type)
    /\ Get(field_schema, K_type) \in {Str(T_integer), Str(T_number)}

CoercedAge ==
    IF Get(PropertySchema(F_age), K_type) = Str(T_integer)
    THEN int(Get(nested_data, F_age).s)
    ELSE float(Get(nested_data, F_age).s)

ExpectedRange(x, field_schema) ==
    (IF /\ HasKey(field_schema, K_minimum)
        /\ x.kind = "finite"
        /\ x.num < Get(field_schema, K_minimum).n * x.den
     THEN <<<<"'">> \o F_age \o <<"' must be at least ",
                                  ToString(Get(field_schema, K_minimum).n)>>>>
     ELSE <<>>)
    \o
    (IF /\ HasKey(field_schema, K_maximum)
        /\ x.kind = "finite"
        /\ x.num > Get(field_schema, K_maximum).n * x.den
     THEN <<<<"'">> \o F_age \o <<"' must be at most ",
                                  ToString(Get(field_schema, K_maximum).n)>>>>
     ELSE <<>>)

AgeIs(text) == HasKey(nested_data, F_age) /\ Get(nested_data, F_age) = Str(text)

C9_CoercionThenRange ==
    (/\ pc = "validated"
     /\ Numeric(PropertySchema(F_age))
     /\ HasKey(nested_data, F_age)
     /\ Get(nested_data, F_age).t = "str"
     /\ Get(nested_data, F_age) # Str(<<>>)) =>
        /\ validation.exc = "none"
        /\ AgeMessages =
              IF CoercedAge.ok
              THEN ExpectedRange(CoercedAge, PropertySchema(F_age))
              ELSE <<<<"'">> \o F_age \o <<"' must be a valid ">>
                        \o Get(PropertySchema(F_age), K_type).s>>
        /\ PropertySchema(F_age) = Range(T_integer, 0, 10) =>
              /\ AgeIs(<<"5">>) => AgeMessages = <<>>
              /\ AgeIs(<<"a", "b", "c">>) =>
                    AgeMessages = <<<<"'">> \o F_age \o <<"' must be a valid ">> \o T_integer>>
              /\ AgeIs(<<"1", "5">>) =>
                    AgeMessages = <<<<"'">> \o F_age \o <<"' must be at most ", "10">>>>

C9_Witness ==
    /\ pc = "validated"
    /\ Get(Get(schema, K_properties), F_age) = Range(T_integer, 0, 10)
    /\ AgeIs(<<"1", "5">>)
    /\ validation.exc = "none"
    /\ AgeMessages = <<<<"'">> \o F_age \o <<"' must be at most ", "10">>>>

(***************************************************************************)
(* Vocabulary of the server's properties.                                  *)
(***************************************************************************)
\* The load of schema.json failed for the request in hand.
LoadFailed == file.kind \in {"missing", "malformed"}

\* The request in hand asks for the form or posts a submission.
AsksForForm == request.method = "GET" /\ request.path = Root
PostsSubmission == request.method = "POST" /\ request.path = ValidatePath

\* A response was sent for the request in hand.
Answered == response.status # 0

\* C11: when the load of the schema document fails, no GET / and no
\* POST /validate is answered from a schema put in place of the failed load:
\* the failure stops the server, it is not papered over with an empty schema.
C11_NoAnswerAfterFailedLoad ==
    (LoadFailed /\ (AsksForForm \/ PostsSubmission)) => ~Answered

\* The submission posted was assembled and validated to the end.
Completed == PostsSubmission /\ pc = "validated"

\* What the request in hand comes to when schema.json is f instead.
Under(f) == handle_validation(load_schema(f).schema, request)

\* The pieces of message stand one after another somewhere in body.
Occurs(message, body) ==
    \E i \in 1..(Len(body) - Len(message) + 1) :
        SubSeq(body, i, i + Len(message) - 1) = message

\* json.dumps(nested_data, indent=2) for a nested mapping of strings, spelled
\* out: the entries one per line, indented two spaces a level.
RECURSIVE Serialized(_, _)
RECURSIVE SerializedEntries(_, _, _)
Serialized(value, indent) ==
    IF value.t = "str" THEN <<"\"">> \o Escaped(value.s) \o <<"\"">>
    ELSE IF value.c = <<>> THEN <<"{", "}">>
    ELSE <<"{", "\n">> \o SerializedEntries(value.c, indent + 2, 1)
             \o <<"\n">> \o [j \in 1..indent |-> " "] \o <<"}">>
SerializedEntries(entries, indent, i) ==
    [j \in 1..indent |-> " "]
        \o <<"\"">> \o Escaped(entries[i].k) \o <<"\"", ":", " ">>
        \o Serialized(entries[i].v, indent)
        \o (IF i = Len(entries) THEN <<>>
            ELSE <<",", "\n">> \o SerializedEntries(entries, indent, i + 1))

\* C12: the response to POST /validate does not depend on the validation
\* outcome.  Whenever assembly and validation complete, the response is
\* status 200 with the serialized nested submission as its body and none of
\* the validation errors in it; and the same flat submission, handled under
\* any other schema for which it completes, is given the same response,
\* whether the error lists are empty or not.
C12_ResponseIndependentOfOutcome ==
    Completed =>
        /\ nested_data = parse_nested_form_data(flat_data)
        /\ response = Response(200, "application/json", Serialized(nested_data, 0))
        /\ \A i \in DOMAIN validation.errors :
               ~Occurs(validation.errors[i], response.body)
        /\ \A f \in Files :
               Under(f).pc = "validated" =>
                   /\ Under(f).flat_data = flat_data
                   /\ Under(f).response = response

\* A submission was validated with errors and answered 200, one that under
\* another schema is validated without errors and answered alike.
C12_Witness ==
    /\ Completed
    /\ flat_data.c # <<>>
    /\ validation.errors # <<>>
    /\ response.status = 200
    /\ \E f \in Files :
           /\ f # file
           /\ Under(f).pc = "validated"
           /\ Under(f).validation.errors = <<>>
           /\ Under(f).response = response

====================
